---------------------------- MODULE Spec2Model ----------------------------
(* A model of rcrowe/goller: the SQS Job (job.go), its Config (config.go)   *)
(* and the consumer loops of the Worker (goller.go).                        *)
(*                                                                          *)
(* Two specifications share the module:                                     *)
(*   JobSpec  one Job built by NewJob over one message and one Config, and  *)
(*            a sequence of calls made on it one after another;             *)
(*   Spec     Listen with its consumer loops, handler invocations and the   *)
(*            shared context.                                               *)
EXTENDS Integers, Sequences, FiniteSets, TLC

VARIABLES
    cfg,        \* JobSpec: the *Config the Job was built with
    msg,        \* JobSpec: sqsJob.msg, the sqs.Message
    handled,    \* JobSpec: sqsJob.handled
    nreq,       \* JobSpec: requests the transport received for this Job
    nok,        \* JobSpec: requests the transport answered without error
    ncalls,     \* JobSpec: calls made on the Job so far
    last,       \* JobSpec: the last call made on the Job and its outcome
    consumer,   \* Spec: cfg.Consumer of the Worker
    ctxDone,    \* Spec: the context handed to Listen is done
    listen,     \* Spec: where Listen is: "ready", "waiting", "returned"
    watcher,    \* Spec: the goroutine of Listen that waits on ctx.Done()
    loops,      \* Spec: the consumer loops (goroutines running receive)
    inv,        \* Spec: per loop, the handler invocations of its batch
    metrics,    \* Spec: the Prometheus counters
    crashed     \* Spec: a panic nobody recovered has ended the process

jobVars == <<cfg, msg, handled, nreq, nok, ncalls, last>>
loopVars == <<consumer, ctxDone, listen, watcher, loops, inv, metrics, crashed>>
vars == <<jobVars, loopVars>>

-----------------------------------------------------------------------------
(* Bounds of the model *)

\* calls made one after another on one Job
MaxCalls == 3
\* consumer loops (Consumer.Count is 0 .. MaxCount)
MaxCount == 2
\* messages in one batch (RetrievalMaxNumberOfMessages is 1 .. MaxBatch)
MaxBatch == 2
\* Receive calls the consumer loops issue in all
MaxPolls == 2
\* the largest attempt count BackoffCalc is given in BackoffSpec
MaxTry == 9
\* the most polls of its endpoint the termination watcher makes in WatcherSpec
MaxWatcherPolls == 3

-----------------------------------------------------------------------------
(* Program constants *)

\* int64((12 * time.Hour).Seconds())
HardCeiling == 43200
\* rand.Int63n(30)
RandRange == 30
\* MinVisibilityTimeout: int64((10 * time.Second).Seconds())
DefaultMinVisibilityTimeout == 10
\* MaxVisibilityTimeout: int64((12 * time.Hour).Seconds())
DefaultMaxVisibilityTimeout == 43200
\* string(sqs.MessageSystemAttributeNameApproximateReceiveCount)
ApproximateReceiveCount == "ApproximateReceiveCount"

\* a nil *string
Nil == "NIL"

\* error values
ErrNil == "nil"
ErrAlreadyHandled == "job already handled"
ErrNoReceiveCount == "failed to get recieve count off sqs message"
ErrSyntax == "strconv.ParseInt: invalid syntax"
ErrTransport == "transport error"
\* the call did not return: a nil pointer was dereferenced
Panic == "panic: nil pointer dereference"

-----------------------------------------------------------------------------
(* Strings are sequences of one-character strings, so that parsing is done  *)
(* as strconv does it.                                                      *)

Digits == {"0", "1", "2", "3", "4", "5", "6", "7", "8", "9"}

DigitVal(c) ==
    CASE c = "0" -> 0 [] c = "1" -> 1 [] c = "2" -> 2 [] c = "3" -> 3
      [] c = "4" -> 4 [] c = "5" -> 5 [] c = "6" -> 6 [] c = "7" -> 7
      [] c = "8" -> 8 [] c = "9" -> 9

RECURSIVE ParseUint(_, _)
\* the digits of s read left to right onto acc; -1 when a character is no
\* digit
ParseUint(s, acc) ==
    IF s = <<>> THEN acc
    ELSE IF Head(s) \notin Digits THEN -1
    ELSE ParseUint(Tail(s), acc * 10 + DigitVal(Head(s)))

\* strconv.ParseInt(s, 10, 64): [val, err]. The range error (a value beyond
\* 64 bits) needs a string of 19 digits or more; the strings of the model are
\* shorter, so only the syntax error is modelled.
ParseInt(s) ==
    IF s = <<>> THEN [val |-> 0, err |-> ErrSyntax]
    ELSE
        LET neg == Head(s) = "-"
            body == IF Head(s) \in {"+", "-"} THEN Tail(s) ELSE s
            un == IF body = <<>> THEN -1 ELSE ParseUint(body, 0)
        IN  IF un < 0 THEN [val |-> 0, err |-> ErrSyntax]
            ELSE [val |-> IF neg THEN -un ELSE un, err |-> ErrNil]

-----------------------------------------------------------------------------
(* sqs.Message *)

Keys == {"foo", ApproximateReceiveCount}

\* an entry of Message.MessageAttributes (sender-set): absent, present with
\* a nil StringValue (a Binary attribute), or present with a string
NoEntry == [kind |-> "absent", v |-> <<>>]
BinaryEntry == [kind |-> "binary", v |-> <<>>]
StringEntry(s) == [kind |-> "string", v |-> s]

\* values an attribute may hold
CountStrings ==
    { <<>>, <<"0">>, <<"1">>, <<"3">>, <<"1", "0">>, <<"-", "3">>, <<"x">>,
      <<"-">> }

Message(id, sender, system) ==
    [MessageId |-> id, MessageAttributes |-> sender, Attributes |-> system]

\* the messages a Job is built over
Messages ==
    { Message(id,
              [k \in Keys |-> IF k = ApproximateReceiveCount THEN s ELSE NoEntry],
              [k \in Keys |-> IF k = ApproximateReceiveCount THEN a ELSE NoEntry]) :
        id \in {"abc123", Nil},
        s \in {NoEntry, BinaryEntry, StringEntry(<<"5">>)},
        a \in {NoEntry} \cup {StringEntry(c) : c \in CountStrings} }
    \cup
    { Message(id,
              [k \in Keys |-> IF k = "foo" THEN s ELSE NoEntry],
              [k \in Keys |-> IF k = "foo" THEN a ELSE StringEntry(<<"3">>)]) :
        id \in {"abc123", Nil},
        s \in {NoEntry, BinaryEntry, StringEntry(<<"b", "a", "r">>)},
        a \in {NoEntry, StringEntry(<<"s", "y", "s">>)} }

-----------------------------------------------------------------------------
(* Config *)

\* a BackoffCalc whose jitter is one multiple of the draw too wide
BackoffCalc_WideJitter(try, r) ==
    LET pow == try * try * try
        jitter == r * (try + 2) + 1
    IN  pow + 15 + jitter

\* Job.BackoffCalc of NewDefaultConfig, with r the draw of rand.Int63n(30)
BackoffCalc(try, r) ==
    LET pow == try * try * try
        jitter == r * try + 1
    IN  pow + 15 + jitter

\* the JobConfig of NewDefaultConfig, its two bounds as given
JobConfig(min, max) ==
    [MinVisibilityTimeout |-> min, MaxVisibilityTimeout |-> max]

\* configurations: the default one, and the bounds set by the caller
JobConfigs ==
    { JobConfig(min, max) :
        min \in {DefaultMinVisibilityTimeout, 100},
        max \in {40, DefaultMaxVisibilityTimeout, DefaultMaxVisibilityTimeout + 1} }

-----------------------------------------------------------------------------
(* sqsJob: every method is an operator from the Job (its message m, its     *)
(* handled flag h, its config c) and the transport's answer ok to the       *)
(* outcome [handled, err, val, found, sent], sent being the requests the    *)
(* call handed to the transport.                                            *)

\* the calls that write the Job's status back to SQS
TerminalOpNames == {"Delete", "Release", "Backoff"}

Outcome(h, err, val, found, sent) ==
    [handled |-> h, err |-> err, val |-> val, found |-> found, sent |-> sent]

DeleteRequest == [op |-> "DeleteMessage", timeout |-> 0]
VisibilityRequest(secs) == [op |-> "ChangeMessageVisibility", timeout |-> secs]

\* sqsJob.Attribute
Attribute(m, attr) ==
    IF attr \in Keys /\ m.MessageAttributes[attr].kind # "absent"
    THEN IF m.MessageAttributes[attr].kind = "binary"
         THEN [val |-> <<>>, found |-> FALSE, err |-> Panic]
         ELSE [val |-> m.MessageAttributes[attr].v, found |-> TRUE, err |-> ErrNil]
    ELSE IF attr \in Keys /\ m.Attributes[attr].kind # "absent"
    THEN [val |-> m.Attributes[attr].v, found |-> TRUE, err |-> ErrNil]
    ELSE [val |-> <<>>, found |-> FALSE, err |-> ErrNil]

\* sqsJob.ID: whether the call panics
IDPanics(m) == m.MessageId = Nil

\* sqsJob.Tries
Tries(m) ==
    LET a == Attribute(m, ApproximateReceiveCount)
        p == ParseInt(a.val)
    IN  IF a.err = Panic THEN [val |-> 0, err |-> Panic]
        ELSE IF ~a.found THEN [val |-> 0, err |-> ErrNoReceiveCount]
        ELSE [val |-> IF p.val > 0 THEN p.val - 1 ELSE p.val, err |-> p.err]

\* Delete without its guard on the handled flag
Delete_NoGuard(m, h, ok) ==
    IF ok
    THEN Outcome(TRUE, IF IDPanics(m) THEN Panic ELSE ErrNil, 0, FALSE,
                 <<DeleteRequest>>)
    ELSE Outcome(h, ErrTransport, 0, FALSE, <<DeleteRequest>>)

\* Delete marking the Job handled whatever the transport answers
Delete_HandledOnError(m, h, ok) ==
    IF h THEN Outcome(h, ErrAlreadyHandled, 0, FALSE, <<>>)
    ELSE Outcome(TRUE, IF ok THEN ErrNil ELSE ErrTransport, 0, FALSE,
                 <<DeleteRequest>>)

\* sqsJob.Delete
Delete(m, h, ok) ==
    IF h THEN Outcome(h, ErrAlreadyHandled, 0, FALSE, <<>>)
    ELSE IF ok
        THEN Outcome(TRUE, IF IDPanics(m) THEN Panic ELSE ErrNil, 0, FALSE,
                     <<DeleteRequest>>)
        ELSE Outcome(h, ErrTransport, 0, FALSE, <<DeleteRequest>>)

\* the bounds applied in the other order: the maximum, then the minimum
ReleaseSecs_MaxFirst(c, secs) ==
    LET s1 == IF secs > c.MaxVisibilityTimeout THEN c.MaxVisibilityTimeout ELSE secs
        s2 == IF s1 < c.MinVisibilityTimeout THEN c.MinVisibilityTimeout ELSE s1
    IN  IF s2 >= HardCeiling THEN s2 - 1 ELSE s2

\* the visibility timeout Release hands to the transport for secs
ReleaseSecs(c, secs) ==
    LET s1 == IF secs < c.MinVisibilityTimeout THEN c.MinVisibilityTimeout ELSE secs
        s2 == IF s1 > c.MaxVisibilityTimeout THEN c.MaxVisibilityTimeout ELSE s1
    IN  IF s2 >= HardCeiling THEN s2 - 1 ELSE s2

\* whether Release logs "below minimum" or "above maximum", which calls j.ID()
ReleaseLogsClamp(c, secs) ==
    LET s1 == IF secs < c.MinVisibilityTimeout THEN c.MinVisibilityTimeout ELSE secs
    IN  secs < c.MinVisibilityTimeout \/ s1 > c.MaxVisibilityTimeout

\* Release marking the Job handled whatever the transport answers
Release_HandledOnError(m, h, c, secs, ok) ==
    IF h THEN Outcome(h, ErrAlreadyHandled, 0, FALSE, <<>>)
    ELSE IF ReleaseLogsClamp(c, secs) /\ IDPanics(m)
        THEN Outcome(h, Panic, 0, FALSE, <<>>)
    ELSE Outcome(TRUE, IF ok THEN ErrNil ELSE ErrTransport, 0, FALSE,
                 <<VisibilityRequest(ReleaseSecs(c, secs))>>)

\* sqsJob.Release
Release(m, h, c, secs, ok) ==
    IF h THEN Outcome(h, ErrAlreadyHandled, 0, FALSE, <<>>)
    ELSE IF ReleaseLogsClamp(c, secs) /\ IDPanics(m)
        THEN Outcome(h, Panic, 0, FALSE, <<>>)
    ELSE IF ok
        THEN Outcome(TRUE, IF IDPanics(m) THEN Panic ELSE ErrNil, 0, FALSE,
                     <<VisibilityRequest(ReleaseSecs(c, secs))>>)
        ELSE Outcome(h, ErrTransport, 0, FALSE,
                     <<VisibilityRequest(ReleaseSecs(c, secs))>>)

\* Backoff releasing for the attempt count itself, not for BackoffCalc of it
Backoff_RawTries(m, h, c, r, ok) ==
    LET t == Tries(m)
    IN  IF t.err # ErrNil THEN Outcome(h, t.err, 0, FALSE, <<>>)
        ELSE IF IDPanics(m) THEN Outcome(h, Panic, 0, FALSE, <<>>)
        ELSE Release(m, h, c, t.val, ok)

\* sqsJob.Backoff, with r the draw BackoffCalc makes
Backoff(m, h, c, r, ok) ==
    LET t == Tries(m)
    IN  IF t.err # ErrNil THEN Outcome(h, t.err, 0, FALSE, <<>>)
        ELSE IF IDPanics(m) THEN Outcome(h, Panic, 0, FALSE, <<>>)
        ELSE Release(m, h, c, BackoffCalc(t.val, r), ok)

-----------------------------------------------------------------------------
(* JobSpec: calls made one after another on one Job *)

\* the draws of rand.Int63n(30) followed: the least, the next and the greatest
Draws == {0, 1, RandRange - 1}

\* the seconds a caller asks Release for
ReleaseArgs == {5, 20, 50, 43199, 43200, 43201, 50000}

NoCall ==
    [op |-> "none", key |-> "", secs |-> 0, r |-> 0, ok |-> FALSE,
     handledBefore |-> FALSE, nokBefore |-> 0,
     out |-> Outcome(FALSE, ErrNil, 0, FALSE, <<>>)]

Call(op, key, secs, r, ok, out) ==
    [op |-> op, key |-> key, secs |-> secs, r |-> r, ok |-> ok,
     handledBefore |-> handled, nokBefore |-> nok, out |-> out]

\* NewJob(cfg, logger, msg, svc)
JobInit ==
    /\ cfg \in JobConfigs
    /\ msg \in Messages
    /\ handled = FALSE
    /\ nreq = 0
    /\ nok = 0
    /\ ncalls = 0
    /\ last = NoCall
    /\ consumer = [Count |-> 0, RunOnce |-> FALSE, RunSlowly |-> 0,
                   RetrievalMaxNumberOfMessages |-> 1]
    /\ ctxDone = FALSE
    /\ listen = "ready"
    /\ watcher = "notstarted"
    /\ loops = << >>
    /\ inv = << >>
    /\ metrics = << >>
    /\ crashed = FALSE

\* the effect of a call with outcome out on the Job and on the transport
Apply(out, ok) ==
    /\ handled' = out.handled
    /\ nreq' = nreq + Len(out.sent)
    /\ nok' = nok + (IF out.sent # <<>> /\ ok THEN 1 ELSE 0)
    /\ ncalls' = ncalls + 1
    /\ UNCHANGED <<cfg, msg, loopVars>>

CallDelete ==
    /\ ncalls < MaxCalls
    /\ \E ok \in BOOLEAN :
        LET out == Delete(msg, handled, ok)
        IN  /\ Apply(out, ok)
            /\ last' = Call("Delete", "", 0, 0, ok, out)

CallRelease ==
    /\ ncalls < MaxCalls
    /\ \E secs \in ReleaseArgs, ok \in BOOLEAN :
        LET out == Release(msg, handled, cfg, secs, ok)
        IN  /\ Apply(out, ok)
            /\ last' = Call("Release", "", secs, 0, ok, out)

CallBackoff ==
    /\ ncalls < MaxCalls
    /\ \E r \in Draws, ok \in BOOLEAN :
        LET out == Backoff(msg, handled, cfg, r, ok)
        IN  /\ Apply(out, ok)
            /\ last' = Call("Backoff", "", 0, r, ok, out)

CallTries ==
    /\ ncalls < MaxCalls
    /\ LET t == Tries(msg)
           out == Outcome(handled, t.err, t.val, t.err = ErrNil, <<>>)
       IN  /\ Apply(out, FALSE)
           /\ last' = Call("Tries", "", 0, 0, FALSE, out)

CallAttribute ==
    /\ ncalls < MaxCalls
    /\ \E key \in Keys \cup {"bar"} :
        LET a == Attribute(msg, key)
            out == Outcome(handled, a.err, a.val, a.found, <<>>)
        IN  /\ Apply(out, FALSE)
            /\ last' = Call("Attribute", key, 0, 0, FALSE, out)

JobNext ==
    \/ CallDelete
    \/ CallRelease
    \/ CallBackoff
    \/ CallTries
    \/ CallAttribute

JobSpec == JobInit /\ [][JobNext]_vars

-----------------------------------------------------------------------------
(* Spec: Listen, its consumer loops and their handler invocations *)

Loops == 1 .. MaxCount

\* the pause RunSlowly is given when it is set
Pause == 5

\* cfg.Consumer: the fields the loops read
ConsumerConfigs ==
    [ Count : 0 .. MaxCount,
      RunOnce : BOOLEAN,
      RunSlowly : {0, Pause},
      RetrievalMaxNumberOfMessages : 1 .. MaxBatch ]

\* the messages a Receive returns: one with an identifier and a delivery
\* count of 3, one without an identifier
GoodMessage ==
    Message("abc123", [k \in Keys |-> NoEntry],
            [k \in Keys |-> IF k = ApproximateReceiveCount
                            THEN StringEntry(<<"3">>) ELSE NoEntry])
NoIdMessage ==
    Message(Nil, [k \in Keys |-> NoEntry], [k \in Keys |-> NoEntry])
LoopMessages == {GoodMessage, NoIdMessage}

\* a transport that returns one message more than it was asked for
Batches_Oversize(max) == UNION { [1 .. n -> LoopMessages] : n \in 0 .. max + 1 }

\* resp.Messages of a Receive asked for at most max messages
Batches(max) == UNION { [1 .. n -> LoopMessages] : n \in 0 .. max }

IdleLoop == [pc |-> "idle", polls |-> 0, batch |-> <<>>, next |-> 1]

NoMetrics ==
    [receiveErrorTotal |-> 0, receivedTotal |-> 0, jobPanicTotal |-> 0,
     jobErrorTotal |-> 0, jobProcessedTotal |-> 0]

\* NewJob(w.cfg, w.log, msg, w.svc) and the goroutine that runs the handler
\* on it; requested tells whether the transport has been handed a
\* DeleteMessage or ChangeMessageVisibility request for the message
Invocation(m) ==
    [msg |-> m, handled |-> FALSE, pc |-> "running", result |-> "none",
     requested |-> FALSE]

RECURSIVE PollsUpTo(_, _)
\* the Receive calls issued by the loops 1 .. n of ls
PollsUpTo(ls, n) == IF n = 0 THEN 0 ELSE ls[n].polls + PollsUpTo(ls, n - 1)

\* the state of a Worker built by NewFromConfig, before Listen
Init ==
    /\ consumer \in ConsumerConfigs
    /\ ctxDone = FALSE
    /\ listen = "ready"
    /\ watcher = "notstarted"
    /\ loops = [i \in Loops |-> IdleLoop]
    /\ inv = [i \in Loops |-> <<>>]
    /\ metrics = NoMetrics
    /\ crashed = FALSE
    /\ cfg = JobConfig(DefaultMinVisibilityTimeout, DefaultMaxVisibilityTimeout)
    /\ msg = GoodMessage
    /\ handled = FALSE
    /\ nreq = 0
    /\ nok = 0
    /\ ncalls = 0
    /\ last = NoCall

\* a Listen whose for loop stops one short of Count
ListenStart_OneShort ==
    /\ ~crashed
    /\ listen = "ready"
    /\ listen' = "waiting"
    /\ watcher' = "blocked"
    /\ loops' = [i \in Loops |->
                    IF i < consumer.Count THEN [loops[i] EXCEPT !.pc = "top"]
                    ELSE loops[i]]
    /\ UNCHANGED <<consumer, ctxDone, inv, metrics, crashed, jobVars>>

\* sqsWorker.Listen up to wg.Wait(): the watcher and Count loops are started
ListenStart ==
    /\ ~crashed
    /\ listen = "ready"
    /\ listen' = "waiting"
    /\ watcher' = "blocked"
    /\ loops' = [i \in Loops |->
                    IF i <= consumer.Count THEN [loops[i] EXCEPT !.pc = "top"]
                    ELSE loops[i]]
    /\ UNCHANGED <<consumer, ctxDone, inv, metrics, crashed, jobVars>>

\* the caller cancels the context (or the termination watcher does)
Cancel ==
    /\ ~crashed
    /\ ~ctxDone
    /\ ctxDone' = TRUE
    /\ UNCHANGED <<consumer, listen, watcher, loops, inv, metrics, crashed, jobVars>>

\* a goroutine that writes the notice without waiting for ctx.Done()
WatcherLog_Unconditional ==
    /\ ~crashed
    /\ watcher = "blocked"
    /\ watcher' = "logged"
    /\ UNCHANGED <<consumer, ctxDone, listen, loops, inv, metrics, crashed, jobVars>>

\* the goroutine of Listen: <-ctx.Done(), then the "shutting down" notice
WatcherLog ==
    /\ ~crashed
    /\ watcher = "blocked"
    /\ ctxDone
    /\ watcher' = "logged"
    /\ UNCHANGED <<consumer, ctxDone, listen, loops, inv, metrics, crashed, jobVars>>

\* a loop that stops as soon as the context is done, wherever it is in its
\* batch
LoopStop_MidBatch(i) ==
    /\ ~crashed
    /\ loops[i].pc \in {"top", "dispatch", "wait"}
    /\ ctxDone
    /\ loops' = [loops EXCEPT ![i].pc = "stopped"]
    /\ UNCHANGED <<consumer, ctxDone, listen, watcher, inv, metrics, crashed, jobVars>>

\* receive: case <-ctx.Done(): return
LoopStop(i) ==
    /\ ~crashed
    /\ loops[i].pc = "top"
    /\ ctxDone
    /\ loops' = [loops EXCEPT ![i].pc = "stopped"]
    /\ UNCHANGED <<consumer, ctxDone, listen, watcher, inv, metrics, crashed, jobVars>>

\* a loop that sends the ReceiveMessage request without looking at the
\* context
LoopReceive_IgnoreCancel(i) ==
    /\ ~crashed
    /\ loops[i].pc = "top"
    /\ PollsUpTo(loops, MaxCount) < MaxPolls
    /\ loops' = [loops EXCEPT ![i].pc = "receiving", ![i].polls = @ + 1]
    /\ UNCHANGED <<consumer, ctxDone, listen, watcher, inv, metrics, crashed, jobVars>>

\* receive: default: the ReceiveMessage request is sent
LoopReceive(i) ==
    /\ ~crashed
    /\ loops[i].pc = "top"
    /\ ~ctxDone
    /\ PollsUpTo(loops, MaxCount) < MaxPolls
    /\ loops' = [loops EXCEPT ![i].pc = "receiving", ![i].polls = @ + 1]
    /\ UNCHANGED <<consumer, ctxDone, listen, watcher, inv, metrics, crashed, jobVars>>

\* a loop that sleeps and retries after a failed Receive in run-once mode too
ReceiveError_AlwaysSleep(i) ==
    /\ ~crashed
    /\ loops[i].pc = "receiving"
    /\ metrics' = [metrics EXCEPT !.receiveErrorTotal = @ + 1]
    /\ loops' = [loops EXCEPT ![i].pc = "errsleep"]
    /\ UNCHANGED <<consumer, ctxDone, listen, watcher, inv, crashed, jobVars>>

\* a loop that gives up after a failed Receive in every mode
ReceiveError_AlwaysStop(i) ==
    /\ ~crashed
    /\ loops[i].pc = "receiving"
    /\ metrics' = [metrics EXCEPT !.receiveErrorTotal = @ + 1]
    /\ loops' = [loops EXCEPT ![i].pc = "stopped"]
    /\ UNCHANGED <<consumer, ctxDone, listen, watcher, inv, crashed, jobVars>>

\* receive: req.Send() returned an error
ReceiveError(i) ==
    /\ ~crashed
    /\ loops[i].pc = "receiving"
    /\ metrics' = [metrics EXCEPT !.receiveErrorTotal = @ + 1]
    /\ loops' = [loops EXCEPT ![i].pc =
                    IF consumer.RunOnce THEN "stopped" ELSE "errsleep"]
    /\ UNCHANGED <<consumer, ctxDone, listen, watcher, inv, crashed, jobVars>>

\* receive: time.Sleep(RetrievalErrWait) is over; continue
ErrSleepDone(i) ==
    /\ ~crashed
    /\ loops[i].pc = "errsleep"
    /\ loops' = [loops EXCEPT ![i].pc = "top"]
    /\ UNCHANGED <<consumer, ctxDone, listen, watcher, inv, metrics, crashed, jobVars>>

\* a receive that looks at run-once before it looks at run-slowly
AfterBatch_OnceFirst ==
    IF consumer.RunOnce THEN "stopped"
    ELSE IF consumer.RunSlowly > 0 THEN "slowsleep" ELSE "top"

\* where receive goes once the response is handled: the run-slowly sleep,
\* the run-once return, or the top of the loop
AfterBatch ==
    IF consumer.RunSlowly > 0 THEN "slowsleep"
    ELSE IF consumer.RunOnce THEN "stopped" ELSE "top"

\* receive: req.Send() returned resp
ReceiveMessages(i) ==
    /\ ~crashed
    /\ loops[i].pc = "receiving"
    /\ \E b \in Batches(consumer.RetrievalMaxNumberOfMessages) :
        /\ metrics' = [metrics EXCEPT !.receivedTotal = @ + Len(b)]
        /\ IF Len(b) = 0
           THEN loops' = [loops EXCEPT ![i].pc = AfterBatch]
           ELSE loops' = [loops EXCEPT ![i].pc = "dispatch", ![i].batch = b,
                                       ![i].next = 1]
    /\ UNCHANGED <<consumer, ctxDone, listen, watcher, inv, crashed, jobVars>>

\* handleResponse: one turn of the range over msgs: NewJob, j.ID() for the
\* logger (a nil MessageId panics in the loop's own goroutine), go func(j).
\* After the last turn msgs is read no more.
Dispatch(i) ==
    /\ ~crashed
    /\ loops[i].pc = "dispatch"
    /\ LET m == loops[i].batch[loops[i].next]
       IN  IF IDPanics(m)
           THEN /\ crashed' = TRUE
                /\ UNCHANGED <<loops, inv>>
           ELSE /\ inv' = [inv EXCEPT ![i] = Append(@, Invocation(m))]
                /\ loops' = [loops EXCEPT ![i] =
                                IF loops[i].next = Len(loops[i].batch)
                                THEN [@ EXCEPT !.pc = "wait", !.batch = <<>>,
                                               !.next = 1]
                                ELSE [@ EXCEPT !.next = @ + 1]]
                /\ UNCHANGED crashed
    /\ UNCHANGED <<consumer, ctxDone, listen, watcher, metrics, jobVars>>

\* a join that lets the loop go on once one invocation is done
BatchDone_AnyOne(i) ==
    \E k \in 1 .. Len(inv[i]) : inv[i][k].pc = "done"

\* handleResponse: wg.Wait() returns: every invocation has called wg.Done()
BatchDone(i) ==
    \A k \in 1 .. Len(inv[i]) : inv[i][k].pc = "done"

\* handleResponse returns to receive; the goroutines that are done are gone
LoopJoin(i) ==
    /\ ~crashed
    /\ loops[i].pc = "wait"
    /\ BatchDone(i)
    /\ loops' = [loops EXCEPT ![i].pc = AfterBatch]
    /\ inv' = [inv EXCEPT ![i] = SelectSeq(@, LAMBDA v : v.pc # "done")]
    /\ UNCHANGED <<consumer, ctxDone, listen, watcher, metrics, crashed, jobVars>>

\* receive: time.Sleep(RunSlowly) is over; then the run-once return
SlowSleepDone(i) ==
    /\ ~crashed
    /\ loops[i].pc = "slowsleep"
    /\ loops' = [loops EXCEPT ![i].pc =
                    IF consumer.RunOnce THEN "stopped" ELSE "top"]
    /\ UNCHANGED <<consumer, ctxDone, listen, watcher, inv, metrics, crashed, jobVars>>

\* a recover() that counts the panic but not the handler error
Recovered_PanicOnly(i, k, h, q) ==
    /\ inv' = [inv EXCEPT ![i][k] =
                [@ EXCEPT !.pc = "done", !.result = "panic", !.handled = h,
                          !.requested = q]]
    /\ metrics' = [metrics EXCEPT !.jobPanicTotal = @ + 1]

\* the deferred recover() of an invocation: the panic is counted, and
\* wg.Done() runs
Recovered(i, k, h, q) ==
    /\ inv' = [inv EXCEPT ![i][k] =
                [@ EXCEPT !.pc = "done", !.result = "panic", !.handled = h,
                          !.requested = q]]
    /\ metrics' = [metrics EXCEPT !.jobPanicTotal = @ + 1,
                                  !.jobErrorTotal = @ + 1]

\* the handler calls Delete, Release or Backoff on its Job
HandlerCall(i, k) ==
    /\ ~crashed
    /\ k \in 1 .. Len(inv[i])
    /\ inv[i][k].pc = "running"
    /\ \E op \in TerminalOpNames, ok \in BOOLEAN :
        LET j == inv[i][k]
            out == CASE op = "Delete" -> Delete(j.msg, j.handled, ok)
                     [] op = "Release" -> Release(j.msg, j.handled, cfg, 50, ok)
                     [] op = "Backoff" -> Backoff(j.msg, j.handled, cfg, 0, ok)
            req == j.requested \/ out.sent # <<>>
        IN  IF out.err = Panic
            THEN Recovered(i, k, out.handled, req)
            ELSE /\ inv' = [inv EXCEPT ![i][k].handled = out.handled,
                                        ![i][k].requested = req]
                 /\ UNCHANGED metrics
    /\ UNCHANGED <<consumer, ctxDone, listen, watcher, loops, crashed, jobVars>>

\* an invocation that counts a nil return as processed without asking
\* j.Handled()
HandlerReturn_ProcessedOnNil(i, k) ==
    /\ ~crashed
    /\ k \in 1 .. Len(inv[i])
    /\ inv[i][k].pc = "running"
    /\ \E err \in {"nil", "error"} :
        /\ inv' = [inv EXCEPT ![i][k] = [@ EXCEPT !.pc = "done", !.result = err]]
        /\ metrics' =
            [metrics EXCEPT
                !.jobErrorTotal = @ + (IF err # "nil" THEN 1 ELSE 0),
                !.jobProcessedTotal = @ + (IF err = "nil" THEN 1 ELSE 0)]
    /\ UNCHANGED <<consumer, ctxDone, listen, watcher, loops, crashed, jobVars>>

\* an invocation that, when the handler returns with the Job unhandled,
\* releases the message itself
HandlerReturn_ReleaseUnhandled(i, k) ==
    /\ ~crashed
    /\ k \in 1 .. Len(inv[i])
    /\ inv[i][k].pc = "running"
    /\ \E err \in {"nil", "error"} :
        /\ inv' = [inv EXCEPT ![i][k] =
                    [@ EXCEPT !.pc = "done", !.result = err,
                              !.requested = @ \/ ~inv[i][k].handled]]
        /\ metrics' =
            [metrics EXCEPT
                !.jobErrorTotal = @ + (IF err # "nil" THEN 1 ELSE 0)
                                    + (IF ~inv[i][k].handled THEN 1 ELSE 0),
                !.jobProcessedTotal = @ + (IF inv[i][k].handled THEN 1 ELSE 0)]
    /\ UNCHANGED <<consumer, ctxDone, listen, watcher, loops, crashed, jobVars>>

\* the handler returns err (nil or an error); the invocation counts the
\* outcome and calls wg.Done()
HandlerReturn(i, k) ==
    /\ ~crashed
    /\ k \in 1 .. Len(inv[i])
    /\ inv[i][k].pc = "running"
    /\ \E err \in {"nil", "error"} :
        /\ inv' = [inv EXCEPT ![i][k] = [@ EXCEPT !.pc = "done", !.result = err]]
        /\ metrics' =
            [metrics EXCEPT
                !.jobErrorTotal = @ + (IF err # "nil" THEN 1 ELSE 0)
                                    + (IF ~inv[i][k].handled THEN 1 ELSE 0),
                !.jobProcessedTotal = @ + (IF inv[i][k].handled THEN 1 ELSE 0)]
    /\ UNCHANGED <<consumer, ctxDone, listen, watcher, loops, crashed, jobVars>>

\* the handler panics
HandlerPanic(i, k) ==
    /\ ~crashed
    /\ k \in 1 .. Len(inv[i])
    /\ inv[i][k].pc = "running"
    /\ Recovered(i, k, inv[i][k].handled, inv[i][k].requested)
    /\ UNCHANGED <<consumer, ctxDone, listen, watcher, loops, crashed, jobVars>>

\* a Listen that returns once one of its loops has stopped
ListenReturn_AnyStopped ==
    /\ ~crashed
    /\ listen = "waiting"
    /\ \E i \in Loops : i <= consumer.Count /\ loops[i].pc = "stopped"
    /\ listen' = "returned"
    /\ UNCHANGED <<consumer, ctxDone, watcher, loops, inv, metrics, crashed, jobVars>>

\* Listen: wg.Wait() returns: every consumer loop has called wg.Done()
ListenReturn ==
    /\ ~crashed
    /\ listen = "waiting"
    /\ \A i \in Loops : i <= consumer.Count => loops[i].pc = "stopped"
    /\ listen' = "returned"
    /\ UNCHANGED <<consumer, ctxDone, watcher, loops, inv, metrics, crashed, jobVars>>

Next ==
    \/ ListenStart
    \/ Cancel
    \/ WatcherLog
    \/ ListenReturn
    \/ \E i \in Loops :
        \/ LoopStop(i)
        \/ LoopReceive(i)
        \/ ReceiveError(i)
        \/ ErrSleepDone(i)
        \/ ReceiveMessages(i)
        \/ Dispatch(i)
        \/ LoopJoin(i)
        \/ SlowSleepDone(i)
        \/ \E k \in 1 .. MaxBatch :
            \/ HandlerCall(i, k)
            \/ HandlerReturn(i, k)
            \/ HandlerPanic(i, k)

Spec == Init /\ [][Next]_vars

\* the steps a fair scheduler and the premises of shutdown make happen:
\* every goroutine that can take its next step takes it, every Receive call
\* returns, every sleep ends, every handler returns or panics. Nothing makes
\* the caller cancel, and nothing makes a handler call its Job.
Fairness ==
    /\ WF_vars(ListenStart)
    /\ WF_vars(WatcherLog)
    /\ WF_vars(ListenReturn)
    /\ \A i \in Loops :
        /\ WF_vars(LoopStop(i))
        /\ WF_vars(LoopReceive(i))
        /\ WF_vars(ReceiveError(i) \/ ReceiveMessages(i))
        /\ WF_vars(ErrSleepDone(i))
        /\ WF_vars(Dispatch(i))
        /\ WF_vars(LoopJoin(i))
        /\ WF_vars(SlowSleepDone(i))
        /\ \A k \in 1 .. MaxBatch :
            WF_vars(HandlerReturn(i, k) \/ HandlerPanic(i, k))

FairSpec == Spec /\ Fairness

-----------------------------------------------------------------------------
(* ConfigSpec: RunOnce() and RunSlowly(pause) called on a Config, one call
   after another *)

\* the pauses RunSlowly is called with: a time.Duration is a signed integer
Pauses == {-1, 0, 1, Pause}

\* Config.RunOnce, on the Consumer part c of the Config
ConfigRunOnce(c) ==
    [c EXCEPT !.Count = 1, !.RunOnce = TRUE, !.RunSlowly = 0,
              !.RetrievalMaxNumberOfMessages = 1]

\* a RunSlowly that leaves RunOnce as it finds it
ConfigRunSlowly_KeepOnce(c, pause) ==
    [c EXCEPT !.Count = 1, !.RunSlowly = pause,
              !.RetrievalMaxNumberOfMessages = 1]

\* Config.RunSlowly
ConfigRunSlowly(c, pause) ==
    [c EXCEPT !.Count = 1, !.RunOnce = FALSE, !.RunSlowly = pause,
              !.RetrievalMaxNumberOfMessages = 1]

\* the last call made on the Config, and its Consumer part before the call
ConfigCall(op, pause, before) == [op |-> op, pause |-> pause, before |-> before]

\* a Config whose exported fields the caller has set at will
ConfigInit ==
    /\ consumer \in ConsumerConfigs
    /\ cfg \in JobConfigs
    /\ ncalls = 0
    /\ last = ConfigCall("none", 0, [Count |-> 0, RunOnce |-> FALSE, RunSlowly |-> 0,
                                    RetrievalMaxNumberOfMessages |-> 1])
    /\ msg = GoodMessage
    /\ handled = FALSE
    /\ nreq = 0
    /\ nok = 0
    /\ ctxDone = FALSE
    /\ listen = "ready"
    /\ watcher = "notstarted"
    /\ loops = << >>
    /\ inv = << >>
    /\ metrics = << >>
    /\ crashed = FALSE

CallRunOnce ==
    /\ ncalls < MaxCalls
    /\ consumer' = ConfigRunOnce(consumer)
    /\ ncalls' = ncalls + 1
    /\ last' = ConfigCall("RunOnce", 0, consumer)
    /\ UNCHANGED <<cfg, msg, handled, nreq, nok, ctxDone, listen, watcher,
                   loops, inv, metrics, crashed>>

CallRunSlowly ==
    /\ ncalls < MaxCalls
    /\ \E pause \in Pauses :
        /\ consumer' = ConfigRunSlowly(consumer, pause)
        /\ last' = ConfigCall("RunSlowly", pause, consumer)
    /\ ncalls' = ncalls + 1
    /\ UNCHANGED <<cfg, msg, handled, nreq, nok, ctxDone, listen, watcher,
                   loops, inv, metrics, crashed>>

ConfigNext ==
    \/ CallRunOnce
    \/ CallRunSlowly

ConfigSpec == ConfigInit /\ [][ConfigNext]_vars

-----------------------------------------------------------------------------
(* BackoffSpec: cfg.Job.BackoffCalc of NewDefaultConfig called with an attempt
   count, one call after another *)

\* the last BackoffCalc call: its argument, the draw of rand.Int63n(30) in
\* it, and the delay it returned
BackoffCalcCall(try, r, delay) ==
    [op |-> "BackoffCalc", try |-> try, r |-> r, delay |-> delay]

BackoffInit ==
    /\ last = [op |-> "none", try |-> 0, r |-> 0, delay |-> 0]
    /\ ncalls = 0
    /\ cfg = JobConfig(DefaultMinVisibilityTimeout, DefaultMaxVisibilityTimeout)
    /\ consumer = [Count |-> 0, RunOnce |-> FALSE, RunSlowly |-> 0,
                   RetrievalMaxNumberOfMessages |-> 1]
    /\ msg = GoodMessage
    /\ handled = FALSE
    /\ nreq = 0
    /\ nok = 0
    /\ ctxDone = FALSE
    /\ listen = "ready"
    /\ watcher = "notstarted"
    /\ loops = << >>
    /\ inv = << >>
    /\ metrics = << >>
    /\ crashed = FALSE

CallBackoffCalc ==
    /\ ncalls < MaxCalls
    /\ \E try \in 0 .. MaxTry, r \in 0 .. RandRange - 1 :
        last' = BackoffCalcCall(try, r, BackoffCalc(try, r))
    /\ ncalls' = ncalls + 1
    /\ UNCHANGED <<cfg, consumer, msg, handled, nreq, nok, ctxDone, listen,
                   watcher, loops, inv, metrics, crashed>>

BackoffNext == CallBackoffCalc

BackoffSpec == BackoffInit /\ [][BackoffNext]_vars

-----------------------------------------------------------------------------
(* ReceiveSpec: the ReceiveMessageInput a consumer loop builds from the
   Config, between changes the caller makes to the Config's fields *)

\* Config.QueueURL
QueueURLs == {"foo", "eggs"}

\* cfg.Consumer: the fields the request is built from, with the values of
\* NewDefaultConfig and those TestReceiveMessageRequestTakesCorrectParams sets
RetrievalConfigs ==
    [ RetrievalMaxNumberOfMessages : {1, 7, 10},
      RetrievalVisibilityTimeout : {130, 600},
      RetrievalWaitTimeSeconds : {11, 20} ]

\* a request built with the wait time of NewDefaultConfig instead of the
\* Config's
ReceiveMessageInput_DefaultWait(c, url) ==
    [ AttributeNames |-> <<ApproximateReceiveCount>>,
      MaxNumberOfMessages |-> c.RetrievalMaxNumberOfMessages,
      MessageAttributeNames |-> <<"All">>,
      QueueUrl |-> url,
      VisibilityTimeout |-> c.RetrievalVisibilityTimeout,
      WaitTimeSeconds |-> 20 ]

\* receive: the sqs.ReceiveMessageInput handed to w.svc.ReceiveMessageRequest
ReceiveMessageInput(c, url) ==
    [ AttributeNames |-> <<ApproximateReceiveCount>>,
      MaxNumberOfMessages |-> c.RetrievalMaxNumberOfMessages,
      MessageAttributeNames |-> <<"All">>,
      QueueUrl |-> url,
      VisibilityTimeout |-> c.RetrievalVisibilityTimeout,
      WaitTimeSeconds |-> c.RetrievalWaitTimeSeconds ]

\* the last request a loop built, and the number of the step that built it
ReceiveCall(req, n) == [op |-> "Receive", req |-> req, n |-> n]

ReceiveInit ==
    /\ consumer \in RetrievalConfigs
    /\ cfg \in [QueueURL : QueueURLs]
    /\ last = [op |-> "none", req |-> << >>, n |-> 0]
    /\ ncalls = 0
    /\ msg = GoodMessage
    /\ handled = FALSE
    /\ nreq = 0
    /\ nok = 0
    /\ ctxDone = FALSE
    /\ listen = "ready"
    /\ watcher = "notstarted"
    /\ loops = << >>
    /\ inv = << >>
    /\ metrics = << >>
    /\ crashed = FALSE

\* the caller assigns fields of the Config it shares with the worker
SetConfig ==
    /\ ncalls < MaxCalls
    /\ consumer' \in RetrievalConfigs \ {consumer}
    /\ cfg' \in [QueueURL : QueueURLs]
    /\ ncalls' = ncalls + 1
    /\ UNCHANGED <<last, msg, handled, nreq, nok, ctxDone, listen, watcher,
                   loops, inv, metrics, crashed>>

\* receive: a loop builds its request
BuildReceive ==
    /\ ncalls < MaxCalls
    /\ last' = ReceiveCall(ReceiveMessageInput(consumer, cfg.QueueURL), ncalls + 1)
    /\ ncalls' = ncalls + 1
    /\ UNCHANGED <<consumer, cfg, msg, handled, nreq, nok, ctxDone, listen,
                   watcher, loops, inv, metrics, crashed>>

ReceiveNext ==
    \/ SetConfig
    \/ BuildReceive

ReceiveSpec == ReceiveInit /\ [][ReceiveNext]_vars

-----------------------------------------------------------------------------
(* WatcherSpec: spot.TerminationWatcher after ListenAndCancel(cancel): the
   goroutine of Listen that polls the endpoint, and the goroutine of
   ListenAndCancel that waits for the channel and calls cancel *)

\* the bodies the endpoint answers with: a timestamp, one with a fraction of
\* a second, one with a day its month does not have, no timestamp, nothing
BodyTimestamp ==
    <<"2", "0", "0", "6", "-", "0", "1", "-", "0", "2", "T", "1", "5", ":",
      "0", "4", ":", "0", "5", "Z">>
BodyFraction ==
    <<"2", "0", "0", "6", "-", "0", "1", "-", "0", "2", "T", "1", "5", ":",
      "0", "4", ":", "0", "5", ".", "5", "Z">>
BodyBadDay ==
    <<"2", "0", "0", "6", "-", "0", "2", "-", "3", "0", "T", "1", "5", ":",
      "0", "4", ":", "0", "5", "Z">>
BodyHello ==
    <<"h", "e", "l", "l", "o">>
Bodies == {BodyTimestamp, BodyFraction, BodyBadDay, BodyHello, <<>>}

\* what w.Client.Get and ioutil.ReadAll give: an error of Get, a status code
\* with the body read, or a status code with a body that cannot be read
Responses ==
    {[kind |-> "connerr", code |-> 0, body |-> <<>>]}
        \cup [kind : {"response"}, code : {200, 404, 500}, body : Bodies]
        \cup {[kind |-> "readerr", code |-> 200, body |-> <<>>]}

\* the two characters of s from position n on, as a number; -1 when one of
\* them is no digit
TwoDigits(s, n) == ParseUint(SubSeq(s, n, n + 1), 0)

\* the days of a month, as time.Parse counts them
DaysIn(month, year) ==
    IF month = 2
    THEN IF year % 4 = 0 /\ (year % 100 # 0 \/ year % 400 = 0) THEN 29 ELSE 28
    ELSE IF month \in {4, 6, 9, 11} THEN 30 ELSE 31

\* what may follow the seconds: the Z of the layout, with a fraction of a
\* second before it or not (time.Parse reads a fraction the layout does not
\* have)
ZoneOK(rest) ==
    \/ rest = <<"Z">>
    \/ /\ Len(rest) >= 3
       /\ rest[1] = "."
       /\ rest[Len(rest)] = "Z"
       /\ \A n \in 2 .. Len(rest) - 1 : rest[n] \in Digits

\* time.Parse(terminationTimeFormat, string(body)) returns no error
ParseTimestamp(s) ==
    /\ Len(s) >= 20
    /\ ParseUint(SubSeq(s, 1, 4), 0) >= 0
    /\ s[5] = "-"
    /\ TwoDigits(s, 6) \in 1 .. 12
    /\ s[8] = "-"
    /\ TwoDigits(s, 9) \in 1 .. DaysIn(TwoDigits(s, 6), ParseUint(SubSeq(s, 1, 4), 0))
    /\ s[11] = "T"
    /\ TwoDigits(s, 12) \in 0 .. 23
    /\ s[14] = ":"
    /\ TwoDigits(s, 15) \in 0 .. 59
    /\ s[17] = ":"
    /\ TwoDigits(s, 18) \in 0 .. 59
    /\ ZoneOK(SubSeq(s, 20, Len(s)))

\* a check that takes every answer with status 200 for the termination notice
Terminating_AnyOK(resp) ==
    /\ resp.kind = "response"
    /\ resp.code = 200

\* pollEndpoint gets past every continue with this response
Terminating(resp) ==
    /\ resp.kind = "response"
    /\ resp.code = 200
    /\ ParseTimestamp(resp.body)

\* ListenAndCancel has returned: pollEndpoint is about to make its first Get,
\* the other goroutine blocks on the channel
WatcherInit ==
    /\ watcher = [pc |-> "get", polls |-> 0, closes |-> 0, canceller |-> "blocked",
                  cancels |-> 0]
    /\ last = << >>
    /\ ctxDone = FALSE
    /\ ncalls = 0
    /\ cfg = JobConfig(DefaultMinVisibilityTimeout, DefaultMaxVisibilityTimeout)
    /\ consumer = [Count |-> 0, RunOnce |-> FALSE, RunSlowly |-> 0,
                   RetrievalMaxNumberOfMessages |-> 1]
    /\ msg = GoodMessage
    /\ handled = FALSE
    /\ nreq = 0
    /\ nok = 0
    /\ listen = "ready"
    /\ loops = << >>
    /\ inv = << >>
    /\ metrics = << >>
    /\ crashed = FALSE

\* pollEndpoint: one turn of the for loop, from w.Client.Get to a continue or
\* to close(ch) and the return
PollEndpoint ==
    /\ watcher.pc = "get"
    /\ watcher.polls < MaxWatcherPolls
    /\ \E resp \in Responses :
        /\ last' = Append(last, resp)
        /\ watcher' = IF Terminating(resp)
                      THEN [watcher EXCEPT !.polls = @ + 1, !.closes = @ + 1,
                                           !.pc = "returned"]
                      ELSE [watcher EXCEPT !.polls = @ + 1, !.pc = "tick"]
    /\ UNCHANGED <<ctxDone, ncalls, cfg, consumer, msg, handled, nreq, nok,
                   listen, loops, inv, metrics, crashed>>

\* pollEndpoint: <-w.Ticker.C, the post statement of the for loop
Tick ==
    /\ watcher.pc = "tick"
    /\ watcher' = [watcher EXCEPT !.pc = "get"]
    /\ UNCHANGED <<last, ctxDone, ncalls, cfg, consumer, msg, handled, nreq, nok,
                   listen, loops, inv, metrics, crashed>>

\* ListenAndCancel: <-w.Listen() returns on the closed channel; cancel()
CancelOnClose ==
    /\ watcher.canceller = "blocked"
    /\ watcher.closes > 0
    /\ watcher' = [watcher EXCEPT !.canceller = "done", !.cancels = @ + 1]
    /\ ctxDone' = TRUE
    /\ UNCHANGED <<last, ncalls, cfg, consumer, msg, handled, nreq, nok,
                   listen, loops, inv, metrics, crashed>>

WatcherNext ==
    \/ PollEndpoint
    \/ Tick
    \/ CancelOnClose

WatcherSpec == WatcherInit /\ [][WatcherNext]_vars

-----------------------------------------------------------------------------
(* RaceSpec: a handler that calls Delete() or Release(secs) on its Job from
   two goroutines at once. The Job has no lock: each call is its read of
   j.handled, its request to the transport and its write of j.handled, and
   the steps of the two calls interleave. *)

Goroutines == {1, 2}

\* a call that has not read j.handled yet
PendingCall(op, secs) == [op |-> op, secs |-> secs, pc |-> "check", err |-> "none"]

\* what the read of j.handled may give: the write of the other goroutine is
\* not ordered with the read, so a read made after it may still give false
HandledRead == IF handled THEN {TRUE, FALSE} ELSE {FALSE}

RaceInit ==
    /\ last \in [Goroutines -> {PendingCall("Delete", 0), PendingCall("Release", 5),
                                PendingCall("Release", 20)}]
    /\ msg \in LoopMessages
    /\ cfg = JobConfig(DefaultMinVisibilityTimeout, 40)
    /\ handled = FALSE
    /\ nreq = 0
    /\ nok = 0
    /\ ncalls = 0
    /\ consumer = [Count |-> 0, RunOnce |-> FALSE, RunSlowly |-> 0,
                   RetrievalMaxNumberOfMessages |-> 1]
    /\ ctxDone = FALSE
    /\ listen = "ready"
    /\ watcher = "notstarted"
    /\ loops = << >>
    /\ inv = << >>
    /\ metrics = << >>
    /\ crashed = FALSE

\* Delete, Release: `if j.handled { return ErrAlreadyHandled }`, and in
\* Release the two bounds with their log lines, which call j.ID()
CheckHandled(g) ==
    /\ last[g].pc = "check"
    /\ \E seen \in HandledRead :
        last' = [last EXCEPT ![g] =
                    IF seen THEN [@ EXCEPT !.pc = "done", !.err = ErrAlreadyHandled]
                    ELSE IF /\ @.op = "Release"
                            /\ ReleaseLogsClamp(cfg, @.secs)
                            /\ IDPanics(msg)
                    THEN [@ EXCEPT !.pc = "done", !.err = Panic]
                    ELSE [@ EXCEPT !.pc = "send"]]
    /\ UNCHANGED <<cfg, msg, handled, nreq, nok, ncalls, loopVars>>

\* Delete, Release: req.Send() and its answer
SendRequest(g) ==
    /\ last[g].pc = "send"
    /\ \E ok \in BOOLEAN :
        /\ nreq' = nreq + 1
        /\ nok' = nok + (IF ok THEN 1 ELSE 0)
        /\ last' = [last EXCEPT ![g] =
                        IF ok THEN [@ EXCEPT !.pc = "set"]
                        ELSE [@ EXCEPT !.pc = "done", !.err = ErrTransport]]
    /\ UNCHANGED <<cfg, msg, handled, ncalls, loopVars>>

\* Delete, Release: `if err == nil { j.handled = true; ... j.ID() ... }`
SetHandled(g) ==
    /\ last[g].pc = "set"
    /\ handled' = TRUE
    /\ last' = [last EXCEPT ![g] =
                    [@ EXCEPT !.pc = "done",
                              !.err = IF IDPanics(msg) THEN Panic ELSE ErrNil]]
    /\ UNCHANGED <<cfg, msg, nreq, nok, ncalls, loopVars>>

RaceNext ==
    \E g \in Goroutines :
        \/ CheckHandled(g)
        \/ SendRequest(g)
        \/ SetHandled(g)

RaceSpec == RaceInit /\ [][RaceNext]_vars

-----------------------------------------------------------------------------
(* Properties of the Job, checked under JobSpec *)

\* the requests the last call handed to the transport
Sent == last.out.sent

\* C1: once a Delete or Release request has succeeded, every later Delete or
\* Release call returns ErrAlreadyHandled and hands nothing to the transport,
\* so the number of successful terminal requests stays at 1.
C1_SecondCallRejected ==
    (last.op \in {"Delete", "Release"} /\ last.nokBefore >= 1) =>
        /\ last.out.err = ErrAlreadyHandled
        /\ Sent = <<>>
        /\ nok = 1

C1_Witness ==
    /\ last.op \in {"Delete", "Release"}
    /\ last.nokBefore = 1
    /\ nreq = 1
    /\ ncalls = 2

\* C2: handled starts false, becomes true only in a call whose transport
\* request succeeded, never returns to false, and at most one transport
\* request of the Job ever succeeds.
C2_HandledOnce ==
    /\ ncalls = 0 => ~handled
    /\ last.handledBefore => handled
    /\ (handled /\ ~last.handledBefore) =>
            (last.op \in TerminalOpNames /\ last.ok /\ Len(Sent) = 1)
    /\ nok <= 1

C2_Witness ==
    /\ handled
    /\ last.handledBefore
    /\ last.op = "Backoff"
    /\ nreq = 2
    /\ nok = 1

C5_BelowHardCeiling ==
    \A i \in 1 .. Len(Sent) :
        Sent[i].op = "ChangeMessageVisibility" => Sent[i].timeout < HardCeiling

\* a string that is an integer: an optional sign, then digits only
IsIntegerString(s) ==
    LET body == IF s # <<>> /\ Head(s) \in {"+", "-"} THEN Tail(s) ELSE s
    IN  body # <<>> /\ \A i \in 1 .. Len(body) : body[i] \in Digits

\* C6: Tries() returns max(reported - 1, 0) and no error when the delivery
\* count attribute holds an integer, an error when it is absent or no
\* integer, and never a negative count. Stated for messages whose sender set
\* no attribute of that name.
C6_TriesAsStated ==
    (/\ last.op = "Tries"
     /\ msg.MessageAttributes[ApproximateReceiveCount].kind = "absent") =>
        LET a == msg.Attributes[ApproximateReceiveCount]
            reported == ParseInt(a.v).val
        IN  /\ (a.kind = "string" /\ IsIntegerString(a.v)) =>
                    /\ last.out.err = ErrNil
                    /\ last.out.val = IF reported - 1 > 0 THEN reported - 1 ELSE 0
            /\ (a.kind = "absent" \/ ~IsIntegerString(a.v)) =>
                    last.out.err # ErrNil
            /\ last.out.val >= 0

\* C7: on a Job on which a terminal request has succeeded, Backoff() returns
\* ErrAlreadyHandled and sends nothing, whatever the message's delivery count
\* attribute. Stated for Jobs that have an identifier and no Binary attribute.
C7_BackoffAsStated ==
    (/\ last.op = "Backoff"
     /\ last.nokBefore >= 1
     /\ ~IDPanics(msg)
     /\ \A k \in Keys : msg.MessageAttributes[k].kind # "binary") =>
        /\ last.out.err = ErrAlreadyHandled
        /\ Sent = <<>>

\* C8: on an unhandled Job (that has an identifier), when Tries() gives the
\* attempt count t, Backoff() is Release(BackoffCalc(t)): the transport gets
\* the bounded value of BackoffCalc(t) and handled becomes true on success;
\* when Tries() fails, Backoff() fails the same way, sends nothing and leaves
\* handled false.
C8_BackoffIsRelease ==
    (last.op = "Backoff" /\ ~last.handledBefore /\ ~IDPanics(msg)) =>
        LET t == Tries(msg)
        IN  IF t.err = ErrNil
            THEN /\ last.out = Release(msg, FALSE, cfg, BackoffCalc(t.val, last.r),
                                       last.ok)
                 /\ Len(Sent) = 1
                 /\ Sent[1] = VisibilityRequest(
                                ReleaseSecs(cfg, BackoffCalc(t.val, last.r)))
                 /\ handled = last.ok
            ELSE /\ last.out.err = t.err
                 /\ Sent = <<>>
                 /\ ~handled

C8_Witness ==
    /\ last.op = "Backoff"
    /\ ~last.handledBefore
    /\ ~IDPanics(msg)
    /\ Tries(msg).err = ErrNil
    /\ Tries(msg).val = 2
    /\ last.r = RandRange - 1
    /\ handled
    /\ Sent = <<VisibilityRequest(82)>>

\* C9: Attribute(key) returns the sender-set value when the sender set key,
\* else the system value when the queue set key, else ("", false); it never
\* fails.
C9_AttributeAsStated ==
    last.op = "Attribute" =>
        LET s == IF last.key \in Keys THEN msg.MessageAttributes[last.key] ELSE NoEntry
            q == IF last.key \in Keys THEN msg.Attributes[last.key] ELSE NoEntry
        IN  /\ last.out.err = ErrNil
            /\ s.kind # "absent" => (last.out.found /\ last.out.val = s.v)
            /\ (s.kind = "absent" /\ q.kind # "absent") =>
                    (last.out.found /\ last.out.val = q.v)
            /\ (s.kind = "absent" /\ q.kind = "absent") =>
                    (~last.out.found /\ last.out.val = <<>>)

-----------------------------------------------------------------------------
(* Properties of the consumer loops, checked under Spec *)

\* the handler invocations of loop i that have not returned yet
Running(i) == { k \in 1 .. Len(inv[i]) : inv[i][k].pc = "running" }

\* C10: batches of one consumer loop are strictly sequential: while a Receive
\* call of the loop is in flight no handler invocation of the loop is
\* running, however the invocations of the batch before ended.
C10_BatchesSequential ==
    \A i \in Loops : loops[i].pc = "receiving" => Running(i) = {}

C10_Witness ==
    /\ consumer.Count = 1
    /\ loops[1].pc = "receiving"
    /\ loops[1].polls = 2
    /\ metrics.receivedTotal = 2
    /\ metrics.jobPanicTotal = 1
    /\ metrics.jobProcessedTotal = 1

\* C11: Listen returns only after every one of its consumer loops has
\* stopped: in every state in which Listen has returned, each of the Count
\* loops is stopped, no loop can issue a Receive or start a handler
\* invocation, and no handler invocation is left, running or not.
C11_ReturnedAfterLoops ==
    listen = "returned" =>
        \A i \in Loops :
            /\ i <= consumer.Count => loops[i].pc = "stopped"
            /\ loops[i].pc \in {"idle", "stopped"}
            /\ Running(i) = {}
            /\ inv[i] = <<>>
            /\ ~ENABLED LoopReceive(i)
            /\ ~ENABLED Dispatch(i)

C11_Witness ==
    /\ listen = "returned"
    /\ ctxDone
    /\ consumer.Count = 2
    /\ loops[1].polls = 1
    /\ loops[2].polls = 1
    /\ metrics.receiveErrorTotal = 1
    /\ metrics.jobProcessedTotal = 1

\* C12: once the context is done no loop issues a Receive: a loop at the top
\* of its iteration can only stop, and a loop in its error-retry or
\* run-slowly sleep can only come back to the top, where it stops.
C12_CancelledLoopStops ==
    [][ ctxDone =>
            \A i \in Loops :
                /\ loops'[i].polls = loops[i].polls
                /\ loops'[i].pc = "receiving" => loops[i].pc = "receiving"
                /\ loops[i].pc = "top" =>
                        /\ loops'[i].pc \in {"top", "stopped"}
                        /\ ~crashed => ENABLED LoopStop(i)
                /\ loops[i].pc \in {"errsleep", "slowsleep"} =>
                        loops'[i].pc \in {loops[i].pc, "top", "stopped"} ]_vars

C12_Witness ==
    /\ ctxDone
    /\ ~consumer.RunOnce
    /\ consumer.Count = 1
    /\ loops[1].pc = "stopped"
    /\ loops[1].polls = 1
    /\ metrics.receiveErrorTotal = 1

\* C13: a context that is done while a batch is dispatched or awaited aborts
\* nothing: the loop leaves the dispatch only with one invocation started
\* for every message of the batch, leaves the join only when every one of
\* them is done, no running invocation is taken away, and each running
\* invocation can still return. The loop therefore stops only after the join.
C13_CancelLetsBatchFinish ==
    [][ \A i \in Loops :
            (ctxDone /\ loops[i].pc \in {"dispatch", "wait"}) =>
                /\ loops'[i].pc # loops[i].pc =>
                    \/ /\ loops[i].pc = "dispatch"
                       /\ loops'[i].pc = "wait"
                       /\ Len(inv'[i]) = Len(loops[i].batch)
                    \/ /\ loops[i].pc = "wait"
                       /\ BatchDone(i)
                       /\ loops'[i].pc = AfterBatch
                /\ \A k \in 1 .. Len(inv[i]) :
                        inv[i][k].pc = "running" =>
                            /\ k <= Len(inv'[i])
                            /\ inv'[i][k].pc \in {"running", "done"}
                            /\ inv'[i][k].msg = inv[i][k].msg
                            /\ ~crashed => ENABLED HandlerReturn(i, k) ]_vars

C13_Witness ==
    /\ ctxDone
    /\ ~consumer.RunOnce
    /\ consumer.Count = 1
    /\ loops[1].pc = "wait"
    /\ Len(inv[1]) = 2
    /\ inv[1][1].pc = "done"
    /\ inv[1][1].handled
    /\ inv[1][2].pc = "running"

\* C14: in run-once mode a failed Receive stops the loop at once: the loop
\* never sleeps the error-retry duration, never issues a second Receive, and
\* the step in which the Receive fails starts no handler invocation; a
\* stopped loop does nothing more.
C14_RunOnceErrorStops ==
    [][ consumer.RunOnce =>
            \A i \in Loops :
                /\ loops'[i].pc # "errsleep"
                /\ loops'[i].polls <= 1
                /\ (/\ loops[i].pc = "receiving"
                    /\ loops'[i] # loops[i]
                    /\ metrics'.receiveErrorTotal # metrics.receiveErrorTotal) =>
                        /\ loops'[i].pc = "stopped"
                        /\ loops'[i].polls = loops[i].polls
                        /\ inv' = inv
                /\ loops[i].pc = "stopped" =>
                        (loops'[i] = loops[i] /\ inv'[i] = inv[i]) ]_vars

C14_Witness ==
    /\ consumer.RunOnce
    /\ consumer.Count = 1
    /\ ~ctxDone
    /\ listen = "returned"
    /\ loops[1].pc = "stopped"
    /\ loops[1].polls = 1
    /\ metrics.receiveErrorTotal = 1
    /\ metrics.receivedTotal = 0

\* what loop i or one of its handler invocations can do next, the stop on a
\* cancelled context apart
LoopCanProceed(i) ==
    \/ ENABLED LoopReceive(i)
    \/ ENABLED ReceiveError(i)
    \/ ENABLED ErrSleepDone(i)
    \/ ENABLED Dispatch(i)
    \/ ENABLED LoopJoin(i)
    \/ ENABLED SlowSleepDone(i)
    \/ \E k \in Running(i) : ENABLED HandlerReturn(i, k)

\* C15: in run-once mode, as long as the context is not cancelled, each of
\* the loops Listen started issues at most one Receive, has issued exactly
\* one when it is stopped, and until it is stopped it (or a handler it waits
\* for) can go on, whatever the poll returned; once all are stopped Listen
\* can return.
C15_RunOnceAsStated ==
    (consumer.RunOnce /\ ~ctxDone /\ listen = "waiting") =>
        /\ \A i \in Loops :
            i <= consumer.Count =>
                /\ loops[i].polls <= 1
                /\ loops[i].pc = "stopped" => loops[i].polls = 1
                /\ loops[i].pc # "stopped" => LoopCanProceed(i)
        /\ (\A i \in Loops : i <= consumer.Count => loops[i].pc = "stopped")
                => ENABLED ListenReturn

\* C16: in continuous mode a failed Receive never stops the loop: the step
\* in which the Receive fails puts the loop to its error-retry sleep, the
\* sleep can always end and ends at the top of the loop, where the loop can
\* issue the next Receive unless the context is done; only a loop at the top
\* with the context done stops.
C16_ContinuousRetries ==
    [][ ~consumer.RunOnce =>
            \A i \in Loops :
                /\ (/\ loops[i].pc = "receiving"
                    /\ loops'[i] # loops[i]
                    /\ metrics'.receiveErrorTotal # metrics.receiveErrorTotal) =>
                        loops'[i].pc = "errsleep"
                /\ loops[i].pc = "errsleep" =>
                        /\ loops'[i].pc \in {"errsleep", "top"}
                        /\ ~crashed => ENABLED ErrSleepDone(i)
                /\ (loops'[i].pc = "stopped" /\ loops[i].pc # "stopped") =>
                        (ctxDone /\ loops[i].pc = "top")
                /\ (/\ loops[i].pc = "top"
                    /\ ~ctxDone
                    /\ ~crashed
                    /\ PollsUpTo(loops, MaxCount) < MaxPolls) =>
                        ENABLED LoopReceive(i) ]_vars

C16_Witness ==
    /\ ~consumer.RunOnce
    /\ consumer.Count = 1
    /\ ~ctxDone
    /\ loops[1].pc = "errsleep"
    /\ loops[1].polls = 2
    /\ metrics.receiveErrorTotal = 2

\* C17: a panic in a handler invocation is recovered in that invocation: the
\* step ends the invocation, adds one to the panic counter and one to the
\* handler-error counter, crashes nothing and leaves the loop and every other
\* invocation as they are; in every state of a live process a running
\* invocation can return and a join whose invocations are all done (panicked
\* or not) clears.
C17_PanicIsolated ==
    /\ [](\A i \in Loops :
            ~crashed =>
                /\ \A k \in Running(i) : ENABLED HandlerReturn(i, k)
                /\ (loops[i].pc = "wait" /\ BatchDone(i)) => ENABLED LoopJoin(i))
    /\ [][ \A i \in Loops : \A k \in 1 .. Len(inv[i]) :
            (/\ inv[i][k].pc = "running"
             /\ k <= Len(inv'[i])
             /\ inv'[i][k].result = "panic") =>
                /\ crashed' = crashed
                /\ loops' = loops
                /\ inv'[i][k].pc = "done"
                /\ metrics' = [metrics EXCEPT !.jobPanicTotal = @ + 1,
                                              !.jobErrorTotal = @ + 1]
                /\ \A j \in Loops : \A l \in 1 .. Len(inv[j]) :
                        <<j, l>> # <<i, k>> =>
                            (l <= Len(inv'[j]) /\ inv'[j][l] = inv[j][l]) ]_vars

C17_Witness ==
    /\ consumer.Count = 1
    /\ loops[1].pc \in {"top", "stopped"}
    /\ loops[1].polls = 1
    /\ metrics.receivedTotal = 2
    /\ metrics.jobPanicTotal = 1
    /\ metrics.jobErrorTotal = 1
    /\ metrics.jobProcessedTotal = 1

\* C18: when a handler invocation returns without a panic, the processed
\* counter goes up by one exactly when its Job is handled at that moment, the
\* panic counter stays, and a nil return on an unhandled Job adds exactly one
\* to the handler-error counter and nothing to the processed counter.
C18_ProcessedIffHandled ==
    [][ \A i \in Loops : \A k \in 1 .. Len(inv[i]) :
            (/\ inv[i][k].pc = "running"
             /\ k <= Len(inv'[i])
             /\ inv'[i][k].pc = "done"
             /\ inv'[i][k].result # "panic") =>
                LET h == inv[i][k].handled
                IN  /\ inv'[i][k].handled = h
                    /\ metrics'.jobProcessedTotal =
                            metrics.jobProcessedTotal + (IF h THEN 1 ELSE 0)
                    /\ metrics'.jobPanicTotal = metrics.jobPanicTotal
                    /\ (inv'[i][k].result = "nil" /\ ~h) =>
                            /\ metrics'.jobErrorTotal = metrics.jobErrorTotal + 1
                            /\ metrics'.jobProcessedTotal = metrics.jobProcessedTotal
                    /\ (inv'[i][k].result = "nil" /\ h) =>
                            metrics'.jobErrorTotal = metrics.jobErrorTotal ]_vars

C18_Witness ==
    /\ consumer.RunOnce
    /\ consumer.Count = 1
    /\ listen = "returned"
    /\ metrics.receivedTotal = 1
    /\ metrics.jobErrorTotal = 1
    /\ metrics.jobProcessedTotal = 0
    /\ metrics.jobPanicTotal = 0

-----------------------------------------------------------------------------
(* Properties of the Config, checked under ConfigSpec *)

\* C19: after one or more RunOnce() and RunSlowly(pause) calls, Count is 1,
\* RetrievalMaxNumberOfMessages is 1, run-once and run-slowly are not both
\* enabled, and the mode is the last call's: RunOnce() leaves run-once on and
\* no pause, RunSlowly(pause) leaves run-once off and the pause it was given
\* (run-slowly is enabled when that pause is more than 0).
C19_ModesExclusive ==
    ncalls > 0 =>
        /\ consumer.Count = 1
        /\ consumer.RetrievalMaxNumberOfMessages = 1
        /\ ~(consumer.RunOnce /\ consumer.RunSlowly > 0)
        /\ last.op = "RunOnce" => (consumer.RunOnce /\ consumer.RunSlowly = 0)
        /\ last.op = "RunSlowly" =>
                (~consumer.RunOnce /\ consumer.RunSlowly = last.pause)

C19_Witness ==
    /\ ncalls = 3
    /\ last.op = "RunSlowly"
    /\ last.pause = Pause
    /\ last.before.RunOnce
    /\ last.before.Count = 1
    /\ last.before.RunSlowly = 0
    /\ consumer.RunSlowly = Pause
    /\ ~consumer.RunOnce

-----------------------------------------------------------------------------
(* Properties of the dispatch, checked under Spec *)

\* C20: every turn of the dispatch starts exactly one handler invocation, on
\* a new unhandled Job of the message at hand, and touches no invocation
\* that exists; the dispatch ends with as many invocations as the batch has
\* messages; nothing but a dispatch turn starts an invocation, so a poll that
\* returned no message starts none.
C20_OneInvocationPerMessage ==
    [][ \A i \in Loops :
            /\ (/\ loops[i].pc = "dispatch"
                /\ (loops'[i] # loops[i] \/ crashed' # crashed)) =>
                    /\ inv'[i] = Append(inv[i],
                                        Invocation(loops[i].batch[loops[i].next]))
                    /\ \A j \in Loops \ {i} : inv'[j] = inv[j]
                    /\ loops'[i].pc = "wait" =>
                            Len(inv'[i]) = Len(loops[i].batch)
            /\ loops[i].pc # "dispatch" => Len(inv'[i]) <= Len(inv[i]) ]_vars

\* C21: no message a Receive returns crashes a loop or the process: the
\* process is alive in every state, and a loop that has messages of its batch
\* left to dispatch can take its next dispatch turn.
C21_NoMessageCrashes ==
    /\ ~crashed
    /\ \A i \in Loops : loops[i].pc = "dispatch" => ENABLED Dispatch(i)

\* C22: the core sends no DeleteMessage and no ChangeMessageVisibility
\* request: whether the transport has been handed such a request for a
\* message changes only in a step of the handler (a call on the Job made
\* while the invocation runs), never when the handler returns or panics on
\* its own, at the join, nor in any step of the loop; a message whose handler
\* made no call is left as it was received.
C22_CoreSendsNothing ==
    [][ \A i \in Loops : \A k \in 1 .. Len(inv[i]) :
            k <= Len(inv'[i]) =>
                /\ inv'[i][k].requested # inv[i][k].requested =>
                        /\ inv[i][k].pc = "running"
                        /\ loops' = loops
                        /\ metrics' = metrics \/ inv'[i][k].result = "panic"
                        /\ \E op \in TerminalOpNames, ok \in BOOLEAN :
                            LET j == inv[i][k]
                                out == CASE op = "Delete" -> Delete(j.msg, j.handled, ok)
                                         [] op = "Release" ->
                                                Release(j.msg, j.handled, cfg, 50, ok)
                                         [] op = "Backoff" ->
                                                Backoff(j.msg, j.handled, cfg, 0, ok)
                            IN  out.sent # <<>> /\ inv'[i][k].handled = out.handled
                /\ (inv[i][k].pc = "running" /\ inv'[i][k].result \in {"nil", "error"}) =>
                        inv'[i][k].requested = inv[i][k].requested
                /\ inv[i][k].pc = "done" => inv'[i][k] = inv[i][k] ]_vars

C22_Witness ==
    /\ consumer.Count = 1
    /\ loops[1].pc = "wait"
    /\ Len(inv[1]) = 2
    /\ inv[1][1].pc = "done"
    /\ inv[1][1].result = "nil"
    /\ ~inv[1][1].handled
    /\ ~inv[1][1].requested
    /\ inv[1][2].pc = "done"
    /\ inv[1][2].result = "error"
    /\ ~inv[1][2].handled
    /\ inv[1][2].requested

-----------------------------------------------------------------------------
(* Properties of the default backoff policy, checked under BackoffSpec *)

\* C23: for every attempt count t in 0..MaxTry and every draw, the delay d
\* the default policy returns has t^3 + 15 <= d <= t^3 + 15 + 30*(t+1).
C23_DelayWithinTestRange ==
    last.op = "BackoffCalc" =>
        LET t == last.try
            pow == t * t * t
        IN  /\ pow + 15 <= last.delay
            /\ last.delay <= pow + 15 + RandRange * (t + 1)

C23_Witness ==
    /\ last.op = "BackoffCalc"
    /\ last.try = 9
    /\ last.r = RandRange - 1
    /\ last.delay = 1006
    /\ ncalls = 2

\* C30: the default policy returns try^3 + 15 + r*(try+1) for its draw r in
\* 0..29: the jitter is the draw times (try+1), so that different draws give
\* different delays at every attempt count, attempt 0 included.
C30_JitterAsStated ==
    last.op = "BackoffCalc" =>
        /\ last.r \in 0 .. RandRange - 1
        /\ last.delay = last.try * last.try * last.try + 15
                            + last.r * (last.try + 1)
        /\ \A r \in 0 .. RandRange - 1 :
                r # last.r => BackoffCalc(last.try, r) # last.delay

-----------------------------------------------------------------------------
(* Properties of the Receive request, checked under ReceiveSpec *)

\* C24: every Receive request a loop builds carries the QueueURL,
\* RetrievalMaxNumberOfMessages, RetrievalVisibilityTimeout and
\* RetrievalWaitTimeSeconds the Config has at the time of the call, and asks
\* for the ApproximateReceiveCount system attribute, the one Tries() reads.
C24_RequestCarriesConfig ==
    [][ last' # last =>
            /\ last'.op = "Receive"
            /\ last'.req.QueueUrl = cfg.QueueURL
            /\ last'.req.MaxNumberOfMessages = consumer.RetrievalMaxNumberOfMessages
            /\ last'.req.VisibilityTimeout = consumer.RetrievalVisibilityTimeout
            /\ last'.req.WaitTimeSeconds = consumer.RetrievalWaitTimeSeconds
            /\ \E n \in 1 .. Len(last'.req.AttributeNames) :
                    /\ last'.req.AttributeNames[n] = ApproximateReceiveCount
                    /\ \A m \in Messages :
                        m.MessageAttributes[ApproximateReceiveCount].kind = "absent" =>
                            Tries(m) = Tries([m EXCEPT !.Attributes =
                                [k \in Keys |->
                                    IF k = last'.req.AttributeNames[n]
                                    THEN m.Attributes[k] ELSE NoEntry]]) ]_vars

C24_Witness ==
    /\ ncalls = 3
    /\ last.op = "Receive"
    /\ last.n = 3
    /\ last.req.QueueUrl = "eggs"
    /\ last.req.MaxNumberOfMessages = 7
    /\ last.req.VisibilityTimeout = 130
    /\ last.req.WaitTimeSeconds = 11

-----------------------------------------------------------------------------
(* Properties of Listen and of the modes of the loop, checked under Spec *)

C26_CountLoops ==
    /\ listen = "ready" => \A i \in Loops : loops[i] = IdleLoop
    /\ listen # "ready" =>
            \A i \in Loops : (loops[i].pc # "idle") <=> (i <= consumer.Count)
    /\ \A i \in Loops : loops[i].pc = "idle" => (loops[i].polls = 0 /\ inv[i] = <<>>)
    /\ consumer.Count = 0 =>
            /\ PollsUpTo(loops, MaxCount) = 0
            /\ metrics = NoMetrics
            /\ (listen = "waiting" /\ ~crashed) => ENABLED ListenReturn

C26_Witness ==
    /\ consumer.Count = 1
    /\ listen = "waiting"
    /\ loops[1].pc = "receiving"
    /\ loops[2].pc = "idle"

\* C29 as stated: with run-slowly configured, a loop sleeps the pause after
\* every successful Receive (after the join when there were messages) and
\* goes from that sleep to its next Receive, or to its stop when run-once is
\* set too; after a failed Receive it sleeps the error-retry duration.
C29_AsStated ==
    [][ consumer.RunSlowly > 0 =>
            \A i \in Loops :
                /\ (/\ loops[i].pc = "receiving"
                    /\ loops'[i] # loops[i]
                    /\ metrics'.receiveErrorTotal = metrics.receiveErrorTotal) =>
                        loops'[i].pc \in {"dispatch", "slowsleep"}
                /\ (loops[i].pc = "wait" /\ loops'[i].pc # "wait") =>
                        loops'[i].pc = "slowsleep"
                /\ (loops[i].pc = "slowsleep" /\ loops'[i].pc # "slowsleep") =>
                        loops'[i].pc = IF consumer.RunOnce THEN "stopped" ELSE "top"
                /\ (/\ loops[i].pc = "receiving"
                    /\ metrics'.receiveErrorTotal # metrics.receiveErrorTotal
                    /\ loops'[i] # loops[i]) =>
                        loops'[i].pc = "errsleep" ]_vars

\* C29 as amended: the same, but after a failed Receive the loop sleeps the
\* error-retry duration only when run-once is not set; when it is, the loop
\* stops at once, with neither sleep. The loop never sleeps the pause after
\* a failed Receive, and reaches the top of its iteration only from a sleep.
C29_SlowlySleeps ==
    [][ consumer.RunSlowly > 0 =>
            \A i \in Loops :
                /\ (/\ loops[i].pc = "receiving"
                    /\ loops'[i] # loops[i]
                    /\ metrics'.receiveErrorTotal = metrics.receiveErrorTotal) =>
                        loops'[i].pc \in {"dispatch", "slowsleep"}
                /\ (loops[i].pc = "wait" /\ loops'[i].pc # "wait") =>
                        loops'[i].pc = "slowsleep"
                /\ (loops[i].pc = "slowsleep" /\ loops'[i].pc # "slowsleep") =>
                        loops'[i].pc = IF consumer.RunOnce THEN "stopped" ELSE "top"
                /\ (/\ loops[i].pc = "receiving"
                    /\ metrics'.receiveErrorTotal # metrics.receiveErrorTotal
                    /\ loops'[i] # loops[i]) =>
                        loops'[i].pc = IF consumer.RunOnce THEN "stopped" ELSE "errsleep"
                /\ (loops'[i].pc = "top" /\ loops[i].pc # "top") =>
                        loops[i].pc \in {"idle", "slowsleep", "errsleep"}
                /\ (loops[i].pc \in {"slowsleep", "errsleep"} /\ ~crashed) =>
                        (ENABLED SlowSleepDone(i) \/ ENABLED ErrSleepDone(i)) ]_vars

C29_Witness ==
    /\ consumer.RunSlowly = Pause
    /\ consumer.RunOnce
    /\ consumer.Count = 1
    /\ loops[1].pc = "slowsleep"
    /\ loops[1].polls = 1
    /\ metrics.receivedTotal = 1
    /\ metrics.jobProcessedTotal = 1

-----------------------------------------------------------------------------
(* Properties of the termination watcher, checked under WatcherSpec *)

\* C27: the watcher makes its first poll without waiting for a tick and one
\* poll per tick after it; it closes its channel at most once, and exactly
\* when a poll was answered with status 200 and a body that is a timestamp
\* of the layout 2006-01-02T15:04:05Z; it then polls no more, and cancel is
\* called once, after the close; a connection error, another status or
\* another body closes nothing and leaves the watcher waiting for its next
\* tick.
C27_ClosesOnTermination ==
    /\ [](/\ watcher.polls = Len(last)
          /\ watcher.polls = 0 => watcher.pc = "get"
          /\ watcher.closes <= 1
          /\ watcher.cancels <= watcher.closes
          /\ ctxDone <=> watcher.cancels = 1
          /\ (watcher.closes = 1 /\ watcher.cancels = 0) => ENABLED CancelOnClose
          /\ watcher.closes = 1 <=>
                /\ last # << >>
                /\ last[Len(last)].kind = "response"
                /\ last[Len(last)].code = 200
                /\ last[Len(last)].body \in {BodyTimestamp, BodyFraction}
          /\ watcher.closes = 1 => (watcher.pc = "returned" /\ ~ENABLED PollEndpoint
                                    /\ ~ENABLED Tick)
          /\ (watcher.closes = 0 /\ watcher.polls > 0) => watcher.pc \in {"tick", "get"}
          /\ watcher.pc = "tick" => ENABLED Tick)
    /\ [][ /\ watcher'.polls # watcher.polls =>
                (watcher.pc = "get" /\ watcher'.polls = watcher.polls + 1)
           /\ (watcher'.pc = "get" /\ watcher.pc # "get") => watcher.pc = "tick"
           /\ watcher.pc = "get" => watcher'.pc # "get" \/ watcher' # watcher
         ]_vars

C27_Witness ==
    /\ ctxDone
    /\ watcher.closes = 1
    /\ watcher.cancels = 1
    /\ watcher.polls = 3
    /\ last[1].kind = "connerr"
    /\ last[2].code = 404
    /\ last[3].body = BodyTimestamp

-----------------------------------------------------------------------------
(* Tries and the sender-set attributes, checked under JobSpec *)

\* the message with the same identifier and system attributes and no
\* sender-set attribute
WithoutSenderAttributes(m) ==
    [m EXCEPT !.MessageAttributes = [k \in Keys |-> NoEntry]]

\* C28: Tries() depends on the system attributes only: on any message it
\* returns what it returns on the message with the same system attributes
\* and no sender-set attribute, so two messages that differ in their
\* sender-set attributes only get the same result.
C28_TriesIgnoresSenderAttributes ==
    last.op = "Tries" =>
        /\ last.out.val = Tries(WithoutSenderAttributes(msg)).val
        /\ last.out.err = Tries(WithoutSenderAttributes(msg)).err

-----------------------------------------------------------------------------
(* Bounds on what is in flight, checked under Spec *)

RECURSIVE RunningUpTo(_)
\* the handler invocations of the loops 1 .. n that have not returned yet
RunningUpTo(n) ==
    IF n = 0 THEN 0 ELSE Cardinality(Running(n)) + RunningUpTo(n - 1)

\* the loops with a Receive call in flight
Receiving == { i \in Loops : loops[i].pc = "receiving" }

\* the Consumer settings RunOnce() and RunSlowly(pause) leave behind
SingleModeConfigs ==
    { ConfigRunOnce(c) : c \in ConsumerConfigs }
        \cup { ConfigRunSlowly(c, pause) : c \in ConsumerConfigs, pause \in Pauses }

\* C31: handler concurrency is bounded: the handler invocations running at
\* once are never more than Count times RetrievalMaxNumberOfMessages (the
\* transport returns no more messages than it is asked for), and never more
\* than MaxNumberOfMessages in one loop; with the settings RunOnce() or
\* RunSlowly(pause) leave behind, at most one handler invocation is running
\* and at most one Receive call is in flight.
C31_ConcurrencyBounded ==
    /\ RunningUpTo(MaxCount) <= consumer.Count * consumer.RetrievalMaxNumberOfMessages
    /\ \A i \in Loops :
        Cardinality(Running(i)) <= consumer.RetrievalMaxNumberOfMessages
    /\ Cardinality(Receiving) <= consumer.Count
    /\ consumer \in SingleModeConfigs =>
        /\ RunningUpTo(MaxCount) <= 1
        /\ Cardinality(Receiving) <= 1

C31_Witness ==
    /\ consumer.Count = MaxCount
    /\ consumer.RetrievalMaxNumberOfMessages = MaxBatch
    /\ RunningUpTo(MaxCount) = MaxCount * MaxBatch

\* a run-slowly consumer on its second batch, one invocation running
C31_WitnessSingle ==
    /\ consumer \in SingleModeConfigs
    /\ consumer.RunSlowly = Pause
    /\ loops[1].polls = 2
    /\ RunningUpTo(MaxCount) = 1
    /\ metrics.jobProcessedTotal = 1

-----------------------------------------------------------------------------
(* Shutdown, checked under FairSpec *)

\* C32: once the context is cancelled, every consumer loop eventually stops
\* and Listen eventually returns (every Receive call returns, every handler
\* invocation returns or panics, the scheduler is fair); and as long as a
\* handler invocation has not returned, its loop has not stopped and Listen
\* has not returned.
C32_ShutdownCompletes ==
    /\ ctxDone ~> (/\ listen = "returned"
                   /\ \A i \in Loops : i <= consumer.Count => loops[i].pc = "stopped")
    /\ [](\A i \in Loops :
            Running(i) # {} => (loops[i].pc # "stopped" /\ listen # "returned"))

-----------------------------------------------------------------------------
(* Outcome counters, checked under Spec *)

\* C34: each handler invocation is counted in exactly one outcome class: the
\* step that ends it adds one to the processed counter or one to the
\* handler-error counter, never to both and never two to the handler-error
\* counter; and once Listen has returned, the two counters together equal
\* the number of received messages.
C34_OneOutcomeClass ==
    /\ [](listen = "returned" =>
            metrics.jobProcessedTotal + metrics.jobErrorTotal = metrics.receivedTotal)
    /\ [][ \A i \in Loops : \A k \in 1 .. Len(inv[i]) :
            (/\ inv[i][k].pc = "running"
             /\ k <= Len(inv'[i])
             /\ inv'[i][k].pc = "done") =>
                \/ /\ metrics'.jobProcessedTotal = metrics.jobProcessedTotal + 1
                   /\ metrics'.jobErrorTotal = metrics.jobErrorTotal
                \/ /\ metrics'.jobProcessedTotal = metrics.jobProcessedTotal
                   /\ metrics'.jobErrorTotal = metrics.jobErrorTotal + 1 ]_vars

-----------------------------------------------------------------------------
(* The Job used from two goroutines, checked under RaceSpec *)

\* C33: when Delete or Release are called on one Job from two goroutines at
\* once, at most one of the two calls sends a request that the transport
\* accepts, and a call that reads the handled flag once a request has been
\* accepted returns ErrAlreadyHandled and sends nothing.
C33_SingleUseUnderRace ==
    /\ [](nok <= 1)
    /\ [][ \A g \in Goroutines :
            (last[g].pc = "check" /\ last'[g].pc # "check" /\ handled) =>
                (last'[g].err = ErrAlreadyHandled /\ nreq' = nreq) ]_vars

=============================================================================
